---- MODULE Spec2Model ----
(***************************************************************************)
(* A model of the whitelist API (src/whitelist-api.py) served by the       *)
(* gunicorn worker pool of src/gunicorn.conf.py.                           *)
(*                                                                         *)
(* Text is modelled as a sequence of glyphs.  A glyph is a one-character   *)
(* string, or a longer string standing for a run of characters of a fixed  *)
(* literal of the program ("Whitelist.csv", "tenants") that holds no       *)
(* separator.  Python's None is the one-glyph text NONE.                   *)
(***************************************************************************)
EXTENDS Integers, Sequences, FiniteSets, TLC

VARIABLES
    remote,     \* the repository on the version-control host: branch -> [tip, files]
    pc,         \* per worker: "idle", or "cloned" (an add request between clone and push)
    loc,        \* per worker: the request and the locals of add_whitelist_entry in flight
    event,      \* what the latest step did: the request it received, the response it
                \* returned, and the scratch workspace, the log lines and the external
                \* operations of the request it worked on
    lastAdd,    \* the latest add request answered 200, or NoAdd
    inp,        \* what the specification draws from: the name of the set of requests
                \* sent to the workers, or the arguments of the function under check
    out         \* the result of the function under check

vars == <<remote, pc, loc, event, lastAdd, inp, out>>

--------------------------------------------------------------------------
(* Bounds of the model *)

MaxCommits == 2
MaxTenantLen == 2
MaxEnvLen == 3

--------------------------------------------------------------------------
(* Text helpers: Python's str operations on glyph sequences *)

NONE == <<"None">>

Falsy(s) == s = NONE \/ s = <<>>

UpperCase ==
    <<"A","B","C","D","E","F","G","H","I","J","K","L","M",
      "N","O","P","Q","R","S","T","U","V","W","X","Y","Z">>

LowerCase ==
    <<"a","b","c","d","e","f","g","h","i","j","k","l","m",
      "n","o","p","q","r","s","t","u","v","w","x","y","z">>

DigitChars == {"0","1","2","3","4","5","6","7","8","9"}

Whitespace == {" ", "\n", "\t", "\r"}

Range(s) == {s[i] : i \in DOMAIN s}

\* the lower-case letter of each upper-case letter
LowerOf == [c \in Range(UpperCase) |-> LowerCase[CHOOSE i \in DOMAIN UpperCase : UpperCase[i] = c]]

\* str.lower() on one character
LowerChar(c) == IF c \in DOMAIN LowerOf THEN LowerOf[c] ELSE c

Lower(s) == [i \in DOMAIN s |-> LowerChar(s[i])]

AlnumChars == Range(UpperCase) \cup Range(LowerCase) \cup DigitChars

IsAlnumChar(c) == c \in AlnumChars

\* str.isalnum(): every character alphanumeric and at least one character
IsAlnum(s) == s # <<>> /\ \A i \in DOMAIN s : IsAlnumChar(s[i])

\* str.replace(c, '')
Remove(s, c) == SelectSeq(s, LAMBDA x : x # c)

RECURSIVE LStrip(_)
LStrip(s) == IF s # <<>> /\ Head(s) \in Whitespace THEN LStrip(Tail(s)) ELSE s

RECURSIVE RStrip(_)
RStrip(s) ==
    IF s # <<>> /\ s[Len(s)] \in Whitespace THEN RStrip(SubSeq(s, 1, Len(s) - 1)) ELSE s

\* str.strip()
Strip(s) == RStrip(LStrip(s))

\* str.split(sep): the parts between separators, empty parts kept
RECURSIVE Split(_, _)
Split(s, sep) ==
    IF \E i \in DOMAIN s : s[i] = sep
    THEN LET k == CHOOSE i \in DOMAIN s : s[i] = sep /\ \A j \in 1..(i - 1) : s[j] # sep
         IN  <<SubSeq(s, 1, k - 1)>> \o Split(SubSeq(s, k + 1, Len(s)), sep)
    ELSE <<s>>

StartsWith(s, p) == Len(s) >= Len(p) /\ SubSeq(s, 1, Len(p)) = p

Last(s) == s[Len(s)]

\* every text over alphabet A of length at most n
TextsUpTo(A, n) == UNION {[1..k -> A] : k \in 0..n}

--------------------------------------------------------------------------
(* validate_input *)

MaxEntryLen == 500

AllowedEnvs ==
    { <<"o","r","t">>, <<"i","n","t">>, <<"p","r","o","d">>, <<"d","e","v">>,
      <<"s","t","a","g","i","n","g">>, <<"t","e","s","t">> }

ErrEntryEmpty == "Entry cannot be empty"
ErrEntryLong == "Entry too long (max 500 characters)"
ErrEnvironment == "Environment must be one of: ort, int, prod, dev, staging, test"
ErrTenant == "Tenant name can only contain letters, numbers, hyphens, and underscores"

EntryErrors(entry) ==
    IF Falsy(entry) \/ Len(Strip(entry)) = 0 THEN <<ErrEntryEmpty>>
    ELSE IF Len(entry) > MaxEntryLen THEN <<ErrEntryLong>>
    ELSE <<>>

EnvironmentErrors(environment) ==
    IF ~Falsy(environment) /\ Lower(environment) \notin AllowedEnvs
    THEN <<ErrEnvironment>> ELSE <<>>

TenantErrors(tenant_name) ==
    IF ~Falsy(tenant_name) /\ ~IsAlnum(Remove(Remove(tenant_name, "-"), "_"))
    THEN <<ErrTenant>> ELSE <<>>

validate_input(entry, environment, tenant_name) ==
    EntryErrors(entry) \o EnvironmentErrors(environment) \o TenantErrors(tenant_name)

BranchPrefix == <<"jenkins", "-", "store", "-">>

\* f"jenkins-store-{environment.lower()}"
BranchName(environment) == BranchPrefix \o Lower(environment)

--------------------------------------------------------------------------
(* Credentials: base64.b64decode, bytes.decode('utf-8'), creds.split(':', 1) *)

B64Alphabet ==
    <<"A","B","C","D","E","F","G","H","I","J","K","L","M",
      "N","O","P","Q","R","S","T","U","V","W","X","Y","Z",
      "a","b","c","d","e","f","g","h","i","j","k","l","m",
      "n","o","p","q","r","s","t","u","v","w","x","y","z",
      "0","1","2","3","4","5","6","7","8","9","+","/">>

\* the six-bit value of each character of the alphabet
B64Index ==
    [c \in Range(B64Alphabet) |-> (CHOOSE i \in DOMAIN B64Alphabet : B64Alphabet[i] = c) - 1]

\* the six-bit value of a base64 character, 64 for a character outside the alphabet
B64Value(c) == IF c \in DOMAIN B64Index THEN B64Index[c] ELSE 64

\* binascii.a2b_base64 in its default, non-strict mode: characters outside the
\* alphabet are discarded; a complete pad sequence ends the parse; a quad left
\* open at the end is an error (binascii.Error, a ValueError).
RECURSIVE B64Scan(_, _, _, _, _)
B64Scan(s, quad, left, pads, acc) ==
    IF s = <<>> THEN [ok |-> quad = 0, bytes |-> acc]
    ELSE LET c == Head(s)
             v == B64Value(c)
         IN  IF c = "="
             THEN IF quad >= 2 /\ quad + pads + 1 >= 4
                  THEN [ok |-> TRUE, bytes |-> acc]
                  ELSE B64Scan(Tail(s), quad, left,
                               IF quad >= 2 THEN pads + 1 ELSE pads, acc)
             ELSE IF v >= 64 THEN B64Scan(Tail(s), quad, left, pads, acc)
             ELSE CASE quad = 0 -> B64Scan(Tail(s), 1, v, 0, acc)
                    [] quad = 1 ->
                         B64Scan(Tail(s), 2, v % 16, 0, Append(acc, left * 4 + v \div 16))
                    [] quad = 2 ->
                         B64Scan(Tail(s), 3, v % 4, 0, Append(acc, left * 16 + v \div 4))
                    [] OTHER ->
                         B64Scan(Tail(s), 0, 0, 0, Append(acc, left * 64 + v))

b64decode(s) == B64Scan(s, 0, 0, 0, <<>>)

IsCont(b) == b >= 128 /\ b <= 191

\* bytes.decode('utf-8'): the code points, or an error (UnicodeDecodeError, a ValueError)
RECURSIVE Utf8Scan(_, _)
Utf8Scan(b, acc) ==
    IF b = <<>> THEN [ok |-> TRUE, text |-> acc]
    ELSE LET b1 == b[1]
             n  == Len(b)
             bad == [ok |-> FALSE, text |-> <<>>]
         IN  IF b1 < 128 THEN Utf8Scan(Tail(b), Append(acc, b1))
             ELSE IF b1 >= 194 /\ b1 <= 223
             THEN IF n >= 2 /\ IsCont(b[2])
                  THEN Utf8Scan(SubSeq(b, 3, n), Append(acc, (b1 - 192) * 64 + (b[2] - 128)))
                  ELSE bad
             ELSE IF b1 >= 224 /\ b1 <= 239
             THEN IF /\ n >= 3 /\ IsCont(b[2]) /\ IsCont(b[3])
                     /\ (b1 = 224 => b[2] >= 160)
                     /\ (b1 = 237 => b[2] <= 159)
                  THEN Utf8Scan(SubSeq(b, 4, n),
                         Append(acc, (b1 - 224) * 4096 + (b[2] - 128) * 64 + (b[3] - 128)))
                  ELSE bad
             ELSE IF b1 >= 240 /\ b1 <= 244
             THEN IF /\ n >= 4 /\ IsCont(b[2]) /\ IsCont(b[3]) /\ IsCont(b[4])
                     /\ (b1 = 240 => b[2] >= 144)
                     /\ (b1 = 244 => b[2] <= 143)
                  THEN Utf8Scan(SubSeq(b, 5, n),
                         Append(acc, (b1 - 240) * 262144 + (b[2] - 128) * 4096
                                     + (b[3] - 128) * 64 + (b[4] - 128)))
                  ELSE bad
             ELSE bad

utf8decode(b) == Utf8Scan(b, <<>>)

Colon == 58

BasicPrefix == <<"B","a","s","i","c"," ">>

ErrBasicRequired == "Basic Authorization required"
ErrAuthRequired == "Authorization required"
ErrAuthFormat == "Invalid authorization header format"
ErrAuthHeader == "Invalid authorization header"

NoCreds(err) == [ok |-> FALSE, error |-> err, username |-> <<>>, password |-> <<>>]

\* the try block shared by both handlers: split(' ')[1], b64decode, decode, split(':', 1);
\* IndexError and ValueError give the handler's 401
DecodeCredentials(auth_header, err) ==
    LET parts == Split(auth_header, " ")
    IN  IF Len(parts) < 2 THEN NoCreds(err)
        ELSE LET raw == b64decode(parts[2])
             IN  IF ~raw.ok THEN NoCreds(err)
                 ELSE LET creds == utf8decode(raw.bytes)
                      IN  IF ~creds.ok THEN NoCreds(err)
                          ELSE LET halves == Split(creds.text, Colon)
                               IN  IF Len(halves) < 2 THEN NoCreds(err)
                                   ELSE [ok |-> TRUE, error |-> "",
                                         username |-> halves[1],
                                         password |->
                                           SubSeq(creds.text, Len(halves[1]) + 2,
                                                  Len(creds.text))]

\* add_whitelist_entry: the header must be present and start with "Basic "
AddCredentialsAnonymous(auth_header) ==
    IF Falsy(auth_header)
    THEN [ok |-> TRUE, error |-> "", username |-> <<>>, password |-> <<>>]
    ELSE IF ~StartsWith(auth_header, BasicPrefix) THEN NoCreds(ErrBasicRequired)
    ELSE DecodeCredentials(auth_header, ErrAuthFormat)

AddCredentials(auth_header) ==
    IF Falsy(auth_header) \/ ~StartsWith(auth_header, BasicPrefix)
    THEN NoCreds(ErrBasicRequired)
    ELSE DecodeCredentials(auth_header, ErrAuthFormat)

\* view_whitelist: the header must be present
ViewCredentials(auth_header) ==
    IF Falsy(auth_header) THEN NoCreds(ErrAuthRequired)
    ELSE DecodeCredentials(auth_header, ErrAuthHeader)

--------------------------------------------------------------------------
(* Request parameters *)

DefaultFile == <<"Whitelist.csv">>

\* dict.get(key, default)
Get(d, key, default) == IF d[key] = NONE THEN default ELSE d[key]

\* add_whitelist_entry: the values of entry, environment, tenant and file
AddParams(args, data) ==
    LET environment0 == args.environment
        tenant0 == args.tenant
        file0 == Get(args, "file", DefaultFile)
        entry0 == data.entry
    IN  [ environment |-> IF Falsy(environment0) THEN data.environment ELSE environment0,
          tenant |-> IF Falsy(tenant0) THEN data.tenant ELSE tenant0,
          file |-> IF file0 = DefaultFile THEN Get(data, "file", DefaultFile) ELSE file0,
          entry |-> IF Falsy(entry0) THEN args.entry ELSE entry0 ]

\* a or b
Or(a, b) == IF Falsy(a) THEN b ELSE a

\* view_whitelist: the values of environment, tenant and file
ViewParams(method, args, data) ==
    IF method = "GET"
    THEN [ environment |-> args.environment,
           tenant |-> args.tenant,
           file |-> Get(args, "file", DefaultFile) ]
    ELSE [ environment |-> Or(args.environment, data.environment),
           tenant |-> Or(args.tenant, data.tenant),
           file |-> Or(args.file, Get(data, "file", DefaultFile)) ]

--------------------------------------------------------------------------
(* The repository on the version-control host, and a clone of it *)

\* a tree is a set of files, each a path and its text
Has(files, path) == \E f \in files : f.path = path

Read(files, path) == (CHOOSE f \in files : f.path = path).text

Write(files, path, text) ==
    {f \in files : f.path # path} \cup {[path |-> path, text |-> text]}

\* the directory part of a path: the text before its last "/"
DirName(path) ==
    IF \E i \in DOMAIN path : path[i] = "/"
    THEN SubSeq(path, 1, (CHOOSE i \in DOMAIN path :
                            path[i] = "/" /\ \A j \in (i + 1)..Len(path) : path[j] # "/") - 1)
    ELSE <<>>

\* directories of a work tree: the root, the parents of tracked files, and the
\* folder made by os.makedirs(folder_name)
IsDir(tree, folder_name, d) ==
    \/ d = <<>>
    \/ d = folder_name
    \/ \E f \in tree : StartsWith(f.path, d \o <<"/">>)

\* open(file_path, 'w') / open(file_path, 'a') succeed when the parent directory
\* exists and file_path is not itself a directory
CanOpen(tree, folder_name, file_path) ==
    /\ file_path # <<>>
    /\ IsDir(tree, folder_name, DirName(file_path))
    /\ ~IsDir(tree, folder_name, file_path)

\* the two header lines written to a new file
Header(tenant_name, environment) ==
    <<"# Whitelist for", " ">> \o tenant_name \o <<" ", "in", " ">> \o environment
        \o <<"\n", "# Format: IP,Description,Status", "\n">>

\* the text of file_path after the handler's two writes
NewText(tree, file_path, tenant_name, environment, entry) ==
    (IF Has(tree, file_path) THEN Read(tree, file_path)
     ELSE Header(tenant_name, environment)) \o entry \o <<"\n">>

\* "git push origin <branch>", without --force: the remote takes the commit only
\* when its tip is still the commit that was cloned
PushAcceptedForced(base, tip) == TRUE

PushAccepted(base, tip) == base = tip

\* f"Add {tenant_name} whitelist entry in {environment}: {entry}"
CommitMessage(tenant_name, environment, entry) ==
    <<"Add", " ">> \o tenant_name \o <<" ", "whitelist entry in", " ">> \o environment
        \o <<":", " ">> \o entry

\* view_whitelist: f"tenants/{tenant_name}"
ViewFolder(tenant_name) == <<"tenants", "/">> \o tenant_name

\* view_whitelist: f"{folder_name}/{file_name}"
ViewPath(tenant_name, file_name) == ViewFolder(tenant_name) \o <<"/">> \o file_name

\* view_whitelist: response.text.strip().split('\n') if response.text.strip() else []
ViewLines(text) == IF Strip(text) # <<>> THEN Split(Strip(text), "\n") ELSE <<>>

--------------------------------------------------------------------------
(* Responses, locals and requests *)

ErrEntryRequired == "Entry field is required"
ErrEnvRequired == "Environment field is required"
ErrTenantRequired == "Tenant field is required"
ErrValidation == "Validation failed"
ErrViewRequired == "Environment and tenant are required"
ErrClone == "Failed to clone branch"
ErrCommit == "Failed to commit"
ErrPush == "Failed to push to branch"
ErrInternal == "Internal server error"
ErrNotFound == "File not found or access denied"

LogCloneFailed == "Git clone failed"
LogCommitFailed == "Git commit failed"
LogPushFailed == "Git push failed"
LogUnexpected == "Unexpected error in add_whitelist_entry"
LogViewError == "Error in view_whitelist"
LogCleanupFailed == "Cleanup failed"
LogSuccess == "Successfully added entry"

\* a JSON response and its status; the fields of the body are added to it
Resp(kind, status, error) == [kind |-> kind, status |-> status, error |-> error]

NoResp == Resp("none", 0, "")

NoParams == [entry |-> NONE, environment |-> NONE, tenant |-> NONE, file |-> NONE]

NoRequest ==
    [ kind |-> "none", method |-> "none", args |-> NoParams, data |-> NoParams,
      auth |-> NONE ]

NoLocals == [base |-> 0, tree |-> {}]

\* ws: "none" (no workspace was made), "present" or "removed";
\* base: the tip an add request cloned
Event(w, req, resp, ws_, log_, ops_, base) ==
    [ worker |-> w, req |-> req, resp |-> resp, ws |-> ws_, log |-> log_, ops |-> ops_,
      base |-> base ]

NoEvent == Event("none", NoRequest, NoResp, "none", {}, {}, 0)

NoAdd == [entry |-> NONE]

--------------------------------------------------------------------------
(* The requests the workers are sent *)

EnvOrt == <<"o","r","t">>
EnvDev == <<"D","e","v">>
EnvOther == <<"q","a">>

TenantOne == <<"t","1">>
TenantTwo == <<"t","-","2">>

EntryPlain == <<"1.2.3.4",",","office">>
EntrySpaced == <<"5.6.7.8"," ">>

AuthValid == BasicPrefix \o <<"d","T","p","w">>
AuthBearer == <<"B","e","a","r","e","r"," ","d","T","p","w">>
AuthNoColon == BasicPrefix \o <<"d","X","A","=">>
AuthBadPadding == BasicPrefix \o <<"d","T","p">>

AuthHeaders == {NONE, AuthValid, AuthBearer, AuthNoColon, AuthBadPadding}

\* POST /whitelist/add?environment=e&tenant=t with the entry in the JSON body
AddRequest(e, t, x, a) ==
    [ kind |-> "add", method |-> "POST",
      args |-> [NoParams EXCEPT !.environment = e, !.tenant = t],
      data |-> [NoParams EXCEPT !.entry = x], auth |-> a ]

\* GET /whitelist/view?environment=e&tenant=t
ViewRequest(e, t, a) ==
    [ kind |-> "view", method |-> "GET",
      args |-> [NoParams EXCEPT !.environment = e, !.tenant = t],
      data |-> NoParams, auth |-> a ]

\* the requests of the worker pool: two tenants adding to one branch and reading
\* back, a branch the repository lacks, a request without credentials, an
\* environment outside the allowed set
PoolRequests ==
    [ adds |-> { AddRequest(EnvOrt, TenantOne, EntryPlain, AuthValid),
                 AddRequest(EnvOrt, TenantTwo, EntrySpaced, AuthValid),
                 AddRequest(EnvDev, TenantOne, EntryPlain, AuthValid),
                 AddRequest(EnvOrt, TenantOne, EntryPlain, NONE),
                 AddRequest(EnvOther, TenantOne, EntryPlain, AuthValid) },
      views |-> { ViewRequest(EnvOrt, TenantOne, AuthValid),
                  ViewRequest(EnvOther, TenantOne, AuthValid) } ]

\* every shape of request, sent to one worker
AllRequests ==
    [ adds |-> { AddRequest(e, t, x, a) :
                   e \in {NONE, <<>>, EnvOrt, EnvDev, EnvOther}, t \in {NONE, TenantOne},
                   x \in {NONE, EntryPlain}, a \in AuthHeaders },
      views |-> { ViewRequest(e, t, a) :
                   e \in {NONE, <<>>, EnvOrt, EnvDev, EnvOther}, t \in {NONE, TenantOne},
                   a \in AuthHeaders } ]

\* the requests this specification sends: inp names the set
Requests == IF inp = "all" THEN AllRequests ELSE PoolRequests

--------------------------------------------------------------------------
(* add_whitelist_entry *)

\* lines 63-124: parameters, required fields, validation, credentials.
\* status 0: the request goes on to the clone
AddPrecheck(req) ==
    LET p == AddParams(req.args, req.data)
        early(status, error, details) ==
            [status |-> status, error |-> error, details |-> details, params |-> p,
             creds |-> NoCreds("")]
    IN  IF Falsy(p.entry) THEN early(400, ErrEntryRequired, <<>>)
        ELSE IF Falsy(p.environment) THEN early(400, ErrEnvRequired, <<>>)
        ELSE IF Falsy(p.tenant) THEN early(400, ErrTenantRequired, <<>>)
        ELSE IF validate_input(p.entry, p.environment, p.tenant) # <<>>
        THEN early(400, ErrValidation, validate_input(p.entry, p.environment, p.tenant))
        ELSE LET creds == AddCredentials(req.auth)
             IN  IF ~creds.ok THEN early(401, creds.error, <<>>)
                 ELSE [status |-> 0, error |-> "", details |-> <<>>, params |-> p,
                       creds |-> creds]

\* the finally block: os.chdir("/") and shutil.rmtree(temp_dir); a failure of either
\* is caught and logged, and the directory stays
FinallyWsSkipped(cleaned) == "present"

FinallyWs(cleaned) == IF cleaned THEN "removed" ELSE "present"

FinallyLog(cleaned) == IF cleaned THEN {} ELSE {LogCleanupFailed}

\* what tempfile.mkdtemp and "git clone -b <branch> --depth 1" can end in: the clone
\* succeeds only for a branch the repository holds
CloneOutcomes(branch_name) ==
    {"mkdtemp_error", "clone_failed", "clone_timeout"}
        \cup (IF branch_name \in DOMAIN remote THEN {"cloned"} ELSE {})

Op(op, branch_name, path, username) ==
    [op |-> op, branch |-> branch_name, path |-> path, username |-> username]

\* lines 62-149: from the request to the end of "git clone"
AddReceive(w) ==
    /\ pc[w] = "idle"
    /\ \A b \in DOMAIN remote : remote[b].tip < MaxCommits
    /\ \E req \in Requests.adds :
         LET pre == AddPrecheck(req)
             p == pre.params
             branch_name == BranchName(p.environment)
             clone == {Op("clone", branch_name, <<>>, pre.creds.username)}
         IN  IF pre.status # 0
             THEN /\ event' = Event(w, req,
                                    Resp("add", pre.status, pre.error)
                                      @@ [details |-> pre.details],
                                    "none", {}, {}, 0)
                  /\ UNCHANGED <<pc, loc>>
             ELSE \E outcome \in CloneOutcomes(branch_name), cleaned \in BOOLEAN :
                  /\ outcome \in {"mkdtemp_error", "cloned"} => cleaned
                  /\ pc' = [pc EXCEPT ![w] = IF outcome = "cloned" THEN "cloned" ELSE "idle"]
                  /\ loc' = [loc EXCEPT ![w] =
                         IF outcome = "cloned"
                         THEN [ entry |-> p.entry, environment |-> p.environment,
                                tenant_name |-> p.tenant, file_name |-> p.file,
                                branch_name |-> branch_name, folder_name |-> p.tenant,
                                username |-> pre.creds.username,
                                base |-> remote[branch_name].tip,
                                tree |-> remote[branch_name].files ]
                         ELSE NoLocals]
                  /\ event' =
                       CASE outcome = "mkdtemp_error" ->
                              Event(w, req, Resp("add", 500, ErrInternal), "none",
                                    {LogUnexpected}, {}, 0)
                         [] outcome = "clone_failed" ->
                              Event(w, req,
                                    Resp("add", 500, ErrClone) @@ [branch |-> branch_name],
                                    FinallyWs(cleaned),
                                    {LogCloneFailed} \cup FinallyLog(cleaned), clone, 0)
                         [] outcome = "clone_timeout" ->
                              Event(w, req, Resp("add", 500, ErrInternal),
                                    FinallyWs(cleaned),
                                    {LogUnexpected} \cup FinallyLog(cleaned), clone, 0)
                         [] OTHER ->
                              Event(w, req, NoResp, "present", {}, clone,
                                    remote[branch_name].tip)
    /\ UNCHANGED <<remote, lastAdd, inp, out>>

\* what lines 151-201 can end in: an exception before the commit, a failed commit,
\* a failed push, a push killed by its timeout (which the remote may or may not
\* have taken by then), a push that succeeded
CommitOutcomes ==
    {"io_error", "commit_failed", "push_failed", "push_timeout", "push_timeout_applied",
     "pushed"}

\* lines 151-229: from os.chdir(temp_dir) to the response
AddCommit(w) ==
    /\ pc[w] = "cloned"
    /\ LET L == loc[w]
           b == L.branch_name
           file_path == L.file_name
           newTree == Write(L.tree, file_path,
                            NewText(L.tree, file_path, L.tenant_name, L.environment, L.entry))
           clone == Op("clone", b, <<>>, L.username)
           push == Op("push", b, <<>>, L.username)
       IN  \E outcome \in CommitOutcomes, cleaned \in BOOLEAN :
             LET pushing == outcome \in {"push_failed", "push_timeout",
                                         "push_timeout_applied", "pushed"}
                 applied == outcome \in {"push_timeout_applied", "pushed"}
                 response ==
                     CASE outcome = "commit_failed" -> Resp("add", 500, ErrCommit)
                       [] outcome = "push_failed" ->
                            Resp("add", 500, ErrPush) @@ [branch |-> b]
                       [] outcome = "pushed" ->
                            Resp("add", 200, "")
                              @@ [ entry |-> L.entry, environment |-> L.environment,
                                   branch |-> b, tenant |-> L.tenant_name,
                                   folder |-> L.folder_name, file |-> L.file_name,
                                   file_path |-> file_path ]
                       [] OTHER -> Resp("add", 500, ErrInternal)
                 logged ==
                     CASE outcome = "commit_failed" -> {LogCommitFailed}
                       [] outcome = "push_failed" -> {LogPushFailed}
                       [] outcome = "pushed" -> {LogSuccess}
                       [] OTHER -> {LogUnexpected}
             IN  /\ ~CanOpen(L.tree, L.folder_name, file_path) => outcome = "io_error"
                 /\ applied => PushAccepted(L.base, remote[b].tip)
                 /\ remote' = IF applied
                              THEN [remote EXCEPT ![b] =
                                      [tip |-> remote[b].tip + 1, files |-> newTree]]
                              ELSE remote
                 /\ event' = Event(w, NoRequest, response, FinallyWs(cleaned),
                                   logged \cup FinallyLog(cleaned),
                                   IF pushing THEN {clone, push} ELSE {clone}, L.base)
                 /\ lastAdd' =
                      IF outcome = "pushed"
                      THEN [ entry |-> L.entry, environment |-> L.environment,
                             tenant |-> L.tenant_name, file |-> L.file_name,
                             branch |-> b, file_path |-> file_path ]
                      ELSE lastAdd
    /\ pc' = [pc EXCEPT ![w] = "idle"]
    /\ loc' = [loc EXCEPT ![w] = NoLocals]
    /\ UNCHANGED <<inp, out>>

--------------------------------------------------------------------------
(* view_whitelist *)

\* the status the raw-content API answers with: 200 for a file the branch holds,
\* 404 otherwise, 401 when it rejects the credentials
UpstreamStatuses(branch_name, file_path) ==
    IF branch_name \in DOMAIN remote /\ Has(remote[branch_name].files, file_path)
    THEN {200, 401} ELSE {404, 401}

\* lines 232-301: the whole handler; it reads the repository once
ViewHandle(w) ==
    /\ pc[w] = "idle"
    /\ \E req \in Requests.views :
         LET p == ViewParams(req.method, req.args, req.data)
             creds == ViewCredentials(req.auth)
             branch_name == BranchName(p.environment)
             file_path == ViewPath(p.tenant, p.file)
             read == {Op("read", branch_name, file_path, creds.username)}
         IN  IF Falsy(p.environment) \/ Falsy(p.tenant)
             THEN event' = Event(w, req, Resp("view", 400, ErrViewRequired), "none", {}, {}, 0)
             ELSE IF ~creds.ok
             THEN event' = Event(w, req, Resp("view", 401, creds.error), "none", {}, {}, 0)
             ELSE \/ event' = Event(w, req, Resp("view", 500, ErrInternal), "none",
                                    {LogViewError}, read, 0)
                  \/ \E status \in UpstreamStatuses(branch_name, file_path) :
                       event' = Event(w, req,
                          IF status = 200
                          THEN LET text == Read(remote[branch_name].files, file_path)
                               IN  Resp("view", 200, "")
                                     @@ [ content |-> text, lines |-> ViewLines(text),
                                          environment |-> p.environment,
                                          branch |-> branch_name, tenant |-> p.tenant,
                                          folder |-> ViewFolder(p.tenant),
                                          file |-> p.file, file_path |-> file_path ]
                          ELSE Resp("view", status, ErrNotFound)
                                 @@ [file_path |-> file_path, branch |-> branch_name],
                          "none", {}, read, 0)
    /\ UNCHANGED <<remote, pc, loc, lastAdd, inp, out>>

--------------------------------------------------------------------------
(* The worker pool serving requests *)

OldLine == <<"10.0.0.1,old,active", "\n">>

\* the repository at the start: branch jenkins-store-ort with one file under tenants/
InitRemote ==
    [ b \in {BranchName(EnvOrt)} |->
        [ tip |-> 0,
          files |-> { [path |-> ViewPath(TenantOne, DefaultFile), text |-> OldLine] } ] ]

NoInput == <<>>

InitPool(workers, requests) ==
    /\ remote = InitRemote
    /\ pc = [w \in workers |-> "idle"]
    /\ loc = [w \in workers |-> NoLocals]
    /\ event = NoEvent
    /\ lastAdd = NoAdd
    /\ inp = requests
    /\ out = NoInput

Init == InitPool({"w1", "w2"}, "pool")

Next ==
    \/ \E w \in DOMAIN pc : AddReceive(w)
    \/ \E w \in DOMAIN pc : AddCommit(w)
    \/ \E w \in DOMAIN pc : ViewHandle(w)

Spec == Init /\ [][Next]_vars

InitRequests == InitPool({"w1"}, "all")

SpecRequests == InitRequests /\ [][Next]_vars

--------------------------------------------------------------------------
(* validate_input and the branch name, applied to bounded inputs *)

TenantAlphabet == {"a", "Z", "7", "-", "_", "@", " "}

EnvAlphabet == {"o", "r", "t", "O", "T", "x"}

NoOutput == [done |-> FALSE]

InitValidate ==
    /\ remote = InitRemote
    /\ pc = [w \in {"w1"} |-> "idle"]
    /\ loc = [w \in {"w1"} |-> NoLocals]
    /\ event = NoEvent
    /\ lastAdd = NoAdd
    /\ inp \in [ entry : {NONE, <<" ">>, EntryPlain},
                 environment : TextsUpTo(EnvAlphabet, MaxEnvLen)
                                 \cup {NONE, <<"S","t","a","g","i","n","g">>},
                 tenant : TextsUpTo(TenantAlphabet, MaxTenantLen) \cup {NONE} ]
    /\ out = NoOutput

Validate ==
    /\ ~out.done
    /\ out' = [ done |-> TRUE,
                errors |-> validate_input(inp.entry, inp.environment, inp.tenant),
                branch |-> IF Falsy(inp.environment) THEN NONE
                           ELSE BranchName(inp.environment) ]
    /\ UNCHANGED <<remote, pc, loc, event, lastAdd, inp>>

SpecValidate == InitValidate /\ [][Validate]_vars

--------------------------------------------------------------------------
(* The parameters of a request, taken from bounded query strings and bodies *)

InitParams ==
    /\ remote = InitRemote
    /\ pc = [w \in {"w1"} |-> "idle"]
    /\ loc = [w \in {"w1"} |-> NoLocals]
    /\ event = NoEvent
    /\ lastAdd = NoAdd
    /\ inp \in [ method : {"GET", "POST"},
                 args : [ entry : {NONE, EntryPlain},
                          environment : {NONE, EnvOrt},
                          tenant : {NONE, TenantOne},
                          file : {NONE, DefaultFile, <<"query.csv">>} ],
                 data : [ entry : {NONE, EntrySpaced},
                          environment : {NONE, EnvDev},
                          tenant : {NONE, TenantTwo},
                          file : {NONE, <<"body.csv">>} ] ]
    /\ out = NoOutput

ParseAdd ==
    /\ ~out.done
    /\ inp.method = "POST"
    /\ out' = [done |-> TRUE, handler |-> "add", params |-> AddParams(inp.args, inp.data)]
    /\ UNCHANGED <<remote, pc, loc, event, lastAdd, inp>>

ParseView ==
    /\ ~out.done
    /\ out' = [ done |-> TRUE, handler |-> "view",
                params |-> ViewParams(inp.method, inp.args, inp.data) ]
    /\ UNCHANGED <<remote, pc, loc, event, lastAdd, inp>>

SpecParams == InitParams /\ [][ParseAdd \/ ParseView]_vars

--------------------------------------------------------------------------
(* Claims *)

Responded == event.resp # NoResp

AllowedBranches == {BranchPrefix \o e : e \in AllowedEnvs}

\* the required fields of a request are present and pass validate_input
FieldsValid(req) ==
    IF req.kind = "add"
    THEN LET p == AddParams(req.args, req.data)
         IN  /\ ~Falsy(p.entry) /\ ~Falsy(p.environment) /\ ~Falsy(p.tenant)
             /\ validate_input(p.entry, p.environment, p.tenant) = <<>>
    ELSE LET p == ViewParams(req.method, req.args, req.data)
         IN  /\ ~Falsy(p.environment) /\ ~Falsy(p.tenant)
             /\ EnvironmentErrors(p.environment) = <<>>
             /\ TenantErrors(p.tenant) = <<>>

\* C1, as claimed: an add request that made a scratch workspace has none left once
\* its response is returned, whatever the outcome.
C1_Original ==
    (event.resp.kind = "add" /\ Responded /\ event.ws # "none") => event.ws = "removed"

\* C1, amended: once the response of an add request is returned its scratch
\* workspace is gone on every outcome, unless the removal itself failed, and then
\* the cleanup failure was logged.
C1_Amended ==
    (event.resp.kind = "add" /\ Responded /\ event.ws # "none") =>
        \/ event.ws = "removed" /\ LogCleanupFailed \notin event.log
        \/ event.ws = "present" /\ LogCleanupFailed \in event.log

\* a clone failure answered 500 with the workspace removed
C1_Witness ==
    /\ event.resp.kind = "add" /\ event.resp.status = 500 /\ event.resp.error = ErrClone
    /\ event.ws = "removed"

\* C2, as claimed: the remote branch changes only by one new commit of an add
\* request answered 200, and an add request answered otherwise leaves it as it was.
C2_Claim ==
    [][ /\ remote' # remote =>
             /\ event'.resp.kind = "add" /\ event'.resp.status = 200
             /\ \E b \in DOMAIN remote :
                  /\ remote'[b].tip = remote[b].tip + 1
                  /\ \A c \in DOMAIN remote \ {b} : remote'[c] = remote[c]
        /\ (event' # event /\ event'.resp.kind = "add" /\ event'.resp.status # 200)
             => remote' = remote ]_vars

\* C3: a worker that finishes an add request after another commit reached the branch
\* it cloned changes nothing on the remote and is answered 500, with the push
\* failure when its push returned; the remote takes a commit only from a worker
\* whose clone is still the tip, and that commit keeps every file and every earlier
\* line and appends the entry to the one file written.
C3_NoLostEntry ==
    [][ \A w \in DOMAIN pc :
          (pc[w] = "cloned" /\ pc'[w] = "idle") =>
            LET L == loc[w]
                b == L.branch_name
                stale == remote[b].tip # L.base
                returned == /\ \E o \in event'.ops : o.op = "push"
                            /\ LogUnexpected \notin event'.log
            IN  /\ stale => (remote' = remote /\ event'.resp.status = 500)
                /\ (stale /\ returned) => event'.resp.error = ErrPush
                /\ remote' # remote =>
                     /\ ~stale
                     /\ remote'[b].tip = remote[b].tip + 1
                     /\ \A f \in remote[b].files :
                          /\ Has(remote'[b].files, f.path)
                          /\ StartsWith(Read(remote'[b].files, f.path), f.text)
                          /\ f.path # L.file_name =>
                               Read(remote'[b].files, f.path) = f.text
                     /\ \A g \in remote'[b].files :
                          Has(remote[b].files, g.path) \/ g.path = L.file_name
                     /\ Has(remote'[b].files, L.file_name)
                     /\ LET new == Read(remote'[b].files, L.file_name)
                            line == L.entry \o <<"\n">>
                        IN  /\ Len(new) >= Len(line)
                            /\ SubSeq(new, Len(new) - Len(line) + 1, Len(new)) = line
                            /\ Has(remote[b].files, L.file_name) =>
                                 new = Read(remote[b].files, L.file_name) \o line ]_vars

\* two workers cloned the same tip; the first push was answered 200 and the second
\* worker has just been answered the push failure
C3_Witness ==
    /\ event.resp.kind = "add" /\ event.resp.status = 500 /\ event.resp.error = ErrPush
    /\ event.base = 0
    /\ remote[event.resp.branch].tip = 1
    /\ lastAdd # NoAdd

\* C4: an add request with valid fields and no Authorization header is answered 401
\* without a scratch workspace and without any clone, commit or push.
C4_NoAuthNoClone ==
    (event.req.kind = "add" /\ event.req.auth = NONE /\ FieldsValid(event.req)) =>
        /\ event.resp.status = 401
        /\ event.ws = "none"
        /\ event.ops = {}
        /\ pc[event.worker] = "idle"

C4_Witness ==
    /\ event.req.kind = "add" /\ event.req.auth = NONE /\ FieldsValid(event.req)
    /\ event.resp.status = 401

\* base64 text proper: alphabet characters in quads, padded by "=" at the end only
StrictBase64(s) ==
    /\ Len(s) % 4 = 0
    /\ \A i \in DOMAIN s :
         \/ B64Value(s[i]) < 64
         \/ s[i] = "=" /\ i >= Len(s) - 1 /\ \A j \in (i + 1)..Len(s) : s[j] = "="

\* an Authorization header that is not "Basic " followed by base64 of text with a colon
Malformed(auth_header) ==
    /\ auth_header # NONE
    /\ \/ ~StartsWith(auth_header, BasicPrefix)
       \/ LET rest == SubSeq(auth_header, Len(BasicPrefix) + 1, Len(auth_header))
          IN  \/ ~StrictBase64(rest)
              \/ Colon \notin Range(b64decode(rest).bytes)

\* C5, as claimed: on add and on view, a request with valid fields and a malformed
\* Authorization header is answered 401 and makes no external call.
C5_Claim ==
    (event.req.kind \in {"add", "view"} /\ FieldsValid(event.req)
        /\ Malformed(event.req.auth)) =>
        (event.resp.status = 401 /\ event.ops = {})

\* C6, as claimed: a view answered 200 for the environment, tenant and file of the
\* latest add answered 200 returns lines whose last element is the entry added.
C6_Claim ==
    (/\ event.resp.kind = "view" /\ event.resp.status = 200
     /\ lastAdd # NoAdd
     /\ event.resp.branch = lastAdd.branch
     /\ event.resp.tenant = lastAdd.tenant
     /\ event.resp.file = lastAdd.file) =>
        (event.resp.lines # <<>> /\ Last(event.resp.lines) = lastAdd.entry)

\* the environment a request names
RequestEnvironment(req) ==
    IF req.kind = "add" THEN AddParams(req.args, req.data).environment
    ELSE ViewParams(req.method, req.args, req.data).environment

\* C7, as claimed: an allowed environment gives the branch "jenkins-store-" and the
\* lower-cased environment, and no clone, push or upstream read is ever issued
\* against a branch outside the six branch names.
C7_Claim ==
    /\ (event.req.kind \in {"add", "view"}
          /\ ~Falsy(RequestEnvironment(event.req))
          /\ Lower(RequestEnvironment(event.req)) \in AllowedEnvs) =>
         \A o \in event.ops : o.branch = BranchPrefix \o Lower(RequestEnvironment(event.req))
    /\ \A o \in event.ops : o.branch \in AllowedBranches

\* C8, as claimed: validate_input reports no tenant error for a non-empty tenant of
\* letters, digits, hyphens and underscores only (hyphens and underscores alone
\* included), and reports it for a tenant holding any other character.
C8_Claim ==
    (out.done /\ inp.tenant # NONE /\ inp.tenant # <<>>) =>
        LET plain == \A i \in DOMAIN inp.tenant :
                        IsAlnumChar(inp.tenant[i]) \/ inp.tenant[i] \in {"-", "_"}
        IN  plain <=> ErrTenant \notin Range(out.errors)

\* C9, as claimed: two add requests answered 200 for the same environment and file
\* name and different tenants write different files of the branch.
C9_Claim ==
    [][ \A w \in DOMAIN pc :
          (/\ pc[w] = "cloned" /\ pc'[w] = "idle"
           /\ event'.resp.status = 200
           /\ lastAdd # NoAdd
           /\ lastAdd.branch = event'.resp.branch
           /\ lastAdd.file = event'.resp.file
           /\ lastAdd.tenant # event'.resp.tenant) =>
             lastAdd.file_path # event'.resp.file_path ]_vars

\* C10, as claimed: on add, a field given in the query string takes the query value,
\* and the JSON body's value is used only when the query string lacks the field.
C10_Claim ==
    (out.done /\ out.handler = "add") =>
        \A f \in {"entry", "environment", "tenant", "file"} :
            /\ inp.args[f] # NONE => out.params[f] = inp.args[f]
            /\ (inp.args[f] = NONE /\ inp.data[f] # NONE) => out.params[f] = inp.data[f]

====
